---- MODULE Spec2Model ----
(***************************************************************************)
(* Voice-to-Summary AI Notepad backend: the text chunking, recombination   *)
(* and style formatting of LLMService, the temp-file lifecycle of          *)
(* WhisperService and the status codes of the route handlers.              *)
(*                                                                         *)
(* A Python str is a sequence of one-character strings.                    *)
(***************************************************************************)
EXTENDS Integers, Sequences, FiniteSets, TLC

VARIABLES
    mode,            \* which entry point this behaviour exercises
    pc,              \* position of the running call
    provider,        \* LLMService.llm_provider
    text,            \* str argument: the text to chunk / summarize / format
    max_length,      \* int argument: chunk limit (chunking) or word limit (summarize)
    style,           \* summary style
    chunks,          \* list[str] returned by _split_text_into_chunks
    summaries,       \* the partial summaries collected by the chunk loop
    calls,           \* every call made to the summarization backend, in order
    formatted,       \* str returned by _apply_style_formatting
    result,          \* <<dict>> once summarize has returned, <<>> before
    error            \* the message of the exception summarize raised, <<>> if none

llm_vars == <<provider, text, max_length, style, chunks, summaries, calls,
              formatted, result, error>>

VARIABLES
    handler,         \* the route handler serving the request, "none" outside a route
    request,         \* the SummaryRequest objects of the request body, in order
    upload,          \* <<UploadFile>> of a /transcribe request
    validated,       \* how validate_audio_file ended for the upload, "" before
    results,         \* the results list the batch handler builds
    svc_outcomes,    \* how each llm_service.summarize call of the request ended
    rejected,        \* detail of the HTTPException(400) the handler raised, "" if none
    response         \* <<[status, ...]>> once the handler has answered

route_vars == <<handler, request, upload, validated, results, svc_outcomes, rejected,
                response>>

VARIABLES
    disk,            \* the temp files that exist
    created,         \* the temp files created since the request arrived
    temp_file,       \* transcribe's local temp_file: <<path>>, or <<>> while unbound
    use_openai_whisper, \* WhisperService.use_openai_whisper
    transcription,   \* <<dict>> once WhisperService.transcribe has returned
    w_calls,         \* every call made to the transcription backend, in order
    w_error          \* the message of the exception transcribe raised, <<>> if none

whisper_vars == <<disk, created, temp_file, use_openai_whisper, transcription,
                  w_calls, w_error>>

VARIABLES
    invocations      \* the service calls in flight at once, each with its own locals;
                     \* <<>> while one request is followed on its own

vars == <<mode, pc, llm_vars, route_vars, whisper_vars, invocations>>

----------------------------------------------------------------------------
(* Bounds of the model                                                     *)

MaxTextLen == 8          \* longest text drawn for the chunking checks
MaxChunkChars == 4       \* largest max_length drawn for the chunking checks
MaxPieces == 3           \* most pieces concatenated into a summary to format
MaxWords == 3            \* most tokens of a text handed to summarize
MaxBatchDrawn == 2       \* longest accepted batch drawn for the batch route
MaxSegments == 2         \* most segments in an answer of the transcription backend
MaxRequests == 2         \* service calls in flight at once

----------------------------------------------------------------------------
(* Python str primitives                                                   *)

Whitespace == {" ", "\n"}

Min(S) == CHOOSE x \in S : \A y \in S : x <= y
Max(S) == CHOOSE x \in S : \A y \in S : x >= y

RECURSIVE Concat(_)
Concat(ss) == IF ss = <<>> THEN <<>> ELSE Head(ss) \o Concat(Tail(ss))

\* sep.join(parts)
RECURSIVE join(_, _)
join(sep, parts) ==
    IF parts = <<>> THEN <<>>
    ELSE IF Len(parts) = 1 THEN parts[1]
    ELSE parts[1] \o sep \o join(sep, Tail(parts))

\* s.strip(): from the first to the last character that is not whitespace
strip(s) ==
    IF \A i \in 1..Len(s) : s[i] \in Whitespace THEN <<>>
    ELSE LET first == CHOOSE i \in 1..Len(s) :
                         s[i] \notin Whitespace /\ \A j \in 1..(i - 1) : s[j] \in Whitespace
             last == CHOOSE i \in 1..Len(s) :
                         s[i] \notin Whitespace /\ \A j \in (i + 1)..Len(s) : s[j] \in Whitespace
         IN  SubSeq(s, first, last)

\* s.split(): the maximal runs of non-whitespace characters, in order
WordStarts(s) ==
    {i \in 1..Len(s) : s[i] \notin Whitespace /\ (i = 1 \/ s[i-1] \in Whitespace)}
WordEnds(s) ==
    {i \in 1..Len(s) : s[i] \notin Whitespace /\ (i = Len(s) \/ s[i+1] \in Whitespace)}

RECURSIVE WordsFrom(_, _, _)
WordsFrom(s, starts, ends) ==
    IF starts = {} THEN <<>>
    ELSE LET b == Min(starts)
             e == Min(ends)
         IN  <<SubSeq(s, b, e)>> \o WordsFrom(s, starts \ {b}, ends \ {e})

split(s) == WordsFrom(s, WordStarts(s), WordEnds(s))

----------------------------------------------------------------------------
(* Python floats, kept exact: num / den with den > 0                       *)

Rat(n, d) == [num |-> n, den |-> d]
RatEq(a, b) == a.num * b.den = b.num * a.den
RatLt(a, b) == a.num * b.den < b.num * a.den
RatAdd(a, b) == Rat(a.num * b.den + b.num * a.den, a.den * b.den)
\* a / n for an integer n > 0
RatDiv(a, n) == Rat(a.num, a.den * n)

\* sum(xs)
RECURSIVE rat_sum(_)
rat_sum(xs) ==
    IF xs = <<>> THEN Rat(0, 1)
    ELSE RatAdd(rat_sum(SubSeq(xs, 1, Len(xs) - 1)), xs[Len(xs)])

\* min(a, b) and max(a, b) of two arguments: the first unless the second is
\* strictly smaller (larger)
rat_min(a, b) == IF RatLt(b, a) THEN b ELSE a
rat_max(a, b) == IF RatLt(a, b) THEN b ELSE a

----------------------------------------------------------------------------
(* LLMService._split_text_into_chunks                                      *)

\* the loop body: one word against the chunk being filled
\* st = [chunks, current_chunk, current_length]
ChunkStepOffByOne(st, word, max_len) ==
    IF st.current_length + Len(word) <= max_len
    THEN [st EXCEPT !.current_chunk = Append(@, word),
                    !.current_length = @ + Len(word) + 1]
    ELSE [chunks |-> IF st.current_chunk # <<>>
                     THEN Append(st.chunks, join(<<" ">>, st.current_chunk))
                     ELSE st.chunks,
          current_chunk |-> <<word>>,
          current_length |-> Len(word)]

ChunkStepDropsWord(st, word, max_len) ==
    IF st.current_length + Len(word) + 1 <= max_len
    THEN [st EXCEPT !.current_chunk = Append(@, word),
                    !.current_length = @ + Len(word) + 1]
    ELSE [chunks |-> IF st.current_chunk # <<>>
                     THEN Append(st.chunks, join(<<" ">>, st.current_chunk))
                     ELSE st.chunks,
          current_chunk |-> <<>>,
          current_length |-> 0]

ChunkStep(st, word, max_len) ==
    IF st.current_length + Len(word) + 1 <= max_len
    THEN [st EXCEPT !.current_chunk = Append(@, word),
                    !.current_length = @ + Len(word) + 1]
    ELSE [chunks |-> IF st.current_chunk # <<>>
                     THEN Append(st.chunks, join(<<" ">>, st.current_chunk))
                     ELSE st.chunks,
          current_chunk |-> <<word>>,
          current_length |-> Len(word)]

RECURSIVE ChunkLoop(_, _, _)
ChunkLoop(st, words, max_len) ==
    IF words = <<>> THEN st
    ELSE ChunkLoop(ChunkStep(st, Head(words), max_len), Tail(words), max_len)

split_text_into_chunks(t, max_len) ==
    LET st == ChunkLoop([chunks |-> <<>>, current_chunk |-> <<>>, current_length |-> 0],
                        split(t), max_len)
    IN  IF st.current_chunk # <<>>
        THEN Append(st.chunks, join(<<" ">>, st.current_chunk))
        ELSE st.chunks

----------------------------------------------------------------------------
(* LLMService._apply_style_formatting                                      *)

Bullet == "bullet"       \* the one character U+2022
Terminators == {".", "!", "?"}
MinSentenceChars == 10

ExecutiveHeader ==
    <<"E", "X", "E", "C", "U", "T", "I", "V", "E", " ", "S", "U", "M", "M",
      "A", "R", "Y", ":", "\n", "\n">>

TechnicalHeader ==
    <<"T", "E", "C", "H", "N", "I", "C", "A", "L", " ", "S", "U", "M", "M",
      "A", "R", "Y", ":", "\n", "\n">>

\* re.split(r'[.!?]+', s): the pieces of s between the maximal runs of
\* terminators, the empty pieces at either end included
RunStarts(s) ==
    {i \in 1..Len(s) : s[i] \in Terminators /\ (i = 1 \/ s[i-1] \notin Terminators)}
RunEnds(s) ==
    {i \in 1..Len(s) : s[i] \in Terminators /\ (i = Len(s) \/ s[i+1] \notin Terminators)}

RECURSIVE PiecesFrom(_, _, _, _)
PiecesFrom(s, from, starts, ends) ==
    IF starts = {} THEN <<SubSeq(s, from, Len(s))>>
    ELSE LET b == Min(starts)
             e == Min(ends)
         IN  <<SubSeq(s, from, b - 1)>> \o PiecesFrom(s, e + 1, starts \ {b}, ends \ {e})

re_split(s) == PiecesFrom(s, 1, RunStarts(s), RunEnds(s))

\* "if sentence and len(sentence) > 10", on the stripped sentence
is_meaningful_ge(sentence) == sentence # <<>> /\ Len(sentence) >= MinSentenceChars

is_meaningful(sentence) == sentence # <<>> /\ Len(sentence) > MinSentenceChars

RECURSIVE bullet_points(_)
bullet_points(sentences) ==
    IF sentences = <<>> THEN <<>>
    ELSE LET sentence == strip(Head(sentences))
         IN  (IF is_meaningful(sentence)
              THEN <<(<<Bullet, " ">> \o sentence)>>
              ELSE <<>>) \o bullet_points(Tail(sentences))

apply_style_formatting(summary, st) ==
    IF st = "bullet_points" THEN join(<<"\n">>, bullet_points(re_split(summary)))
    ELSE IF st = "executive" THEN ExecutiveHeader \o summary
    ELSE IF st = "technical" THEN TechnicalHeader \o summary
    ELSE summary

----------------------------------------------------------------------------
(* LLMService: constants of the two summarization paths                    *)

max_chunk_length == 1024
HFMinLength == 30
PromptWordLimit == 150

----------------------------------------------------------------------------
(* Inputs                                                                  *)

ChunkAlphabet == {"a", "b", " "}

RECURSIVE StringsUpTo(_, _)
StringsUpTo(alphabet, n) ==
    IF n = 0 THEN {<<>>}
    ELSE LET shorter == StringsUpTo(alphabet, n - 1)
         IN  shorter \cup {Append(s, c) : s \in shorter, c \in alphabet}

ChunkTexts == StringsUpTo(ChunkAlphabet, MaxTextLen)

Styles == {"bullet_points", "paragraph", "executive", "technical"}

ExampleSummary ==
    <<"A", "l", "p", "h", "a", " ", "b", "e", "t", "a", " ", "g", "a", "m",
      "m", "a", ".", " ", "S", "h", "o", "r", "t", ".", " ", "A", "n", "o",
      "t", "h", "e", "r", " ", "f", "u", "l", "l", " ", "s", "e", "n", "t",
      "e", "n", "c", "e", " ", "h", "e", "r", "e", ".">>

TenChars == <<"a", "b", "c", "d", "e", "f", "g", "h", "i", "j">>
ElevenChars == <<"a", "b", "c", "d", "e", "f", "g", "h", "i", "j", "k">>
ShortSentence == <<"S", "h", "o", "r", "t">>

\* the summaries handed to the formatter: up to MaxPieces of these, concatenated
SummaryPieces ==
    {ExampleSummary, TenChars, ElevenChars, ShortSentence,
     <<" ">>, <<".">>, <<"!", "?">>}

RECURSIVE PieceStrings(_)
PieceStrings(n) ==
    IF n = 0 THEN {<<>>}
    ELSE LET shorter == PieceStrings(n - 1)
         IN  shorter \cup {s \o p : s \in shorter, p \in SummaryPieces}

FormatSummaries == PieceStrings(MaxPieces)

Providers == {"openai", "huggingface"}

\* requested word limits: the ends of SummaryRequest.max_length's range
MinMaxLength == 10
MaxMaxLength == 500
WordLimits == {MinMaxLength, MaxMaxLength}

\* texts handed to summarize: up to MaxWords tokens of 1, 511 or 512 characters,
\* so that one, two and three chunks of max_chunk_length occur
Rep(c, n) == [i \in 1..n |-> c]
TokenLens == {1, max_chunk_length \div 2 - 1, max_chunk_length \div 2}

RECURSIVE LenSeqs(_)
LenSeqs(n) ==
    IF n = 0 THEN {<<>>}
    ELSE LET shorter == LenSeqs(n - 1)
         IN  shorter \cup {Append(ls, l) : ls \in shorter, l \in TokenLens}

ServiceTexts ==
    {join(<<" ">>, [i \in 1..Len(ls) |-> Rep("a", ls[i])]) : ls \in LenSeqs(MaxWords)}

\* what the summarization backend can answer, besides echoing its input
TenWords ==
    <<"a", " ", "b", " ", "c", " ", "d", " ", "e", " ", "f", " ", "g", " ",
      "h", " ", "i", " ", "j">>

PaddedShort == <<" ">> \o ShortSentence \o <<"\n">>

BackendOutputs == {TenWords, PaddedShort}
BackendCauses == {"quota exceeded", "connection reset"}

BackendReplies(input) ==
    {[outcome |-> "ok", output |-> o, cause |-> ""] : o \in {input} \cup BackendOutputs}
      \cup {[outcome |-> "raise", output |-> <<>>, cause |-> c] : c \in BackendCauses}

----------------------------------------------------------------------------
(* No request in flight, no temp file on disk                              *)

NoRoute ==
    /\ handler = "none"
    /\ request = <<>> /\ upload = <<>> /\ validated = ""
    /\ results = <<>> /\ svc_outcomes = <<>>
    /\ rejected = "" /\ response = <<>>

NoTranscription ==
    /\ disk = {} /\ created = {} /\ temp_file = <<>>
    /\ use_openai_whisper = FALSE
    /\ transcription = <<>> /\ w_calls = <<>> /\ w_error = <<>>

----------------------------------------------------------------------------
(* LLMService.summarize                                                    *)

word_count(s) == Len(split(s))

\* "raise Exception(f'... failed: {str(e)}')" twice: in the provider's method and
\* in summarize; the message is kept as its parts, the cause last
Raise(inner, cause) ==
    /\ error' = <<"Summarization failed: ", inner, cause>>
    /\ pc' = "raised"

SummarizerCall(input, reply) ==
    [fn |-> "summarizer", input |-> input, max_length |-> max_length,
     min_length |-> HFMinLength, outcome |-> reply.outcome,
     output |-> reply.output, cause |-> reply.cause]

combine_summaries_unspaced(ss) == join(<<>>, ss)

combine_summaries(ss) == join(<<" ">>, ss)

HFReturnCountsUnformatted(final_summary) ==
    LET formatted_summary == apply_style_formatting(final_summary, style)
    IN  /\ formatted' = formatted_summary
        /\ result' = <<[summary |-> formatted_summary,
                        word_count |-> word_count(final_summary),
                        model_used |-> "huggingface_model",
                        provider |-> "huggingface"]>>
        /\ pc' = "returned"

\* lines 151-162: format, count the words and return
HFReturn(final_summary) ==
    LET formatted_summary == apply_style_formatting(final_summary, style)
    IN  /\ formatted' = formatted_summary
        /\ result' = <<[summary |-> formatted_summary,
                        word_count |-> word_count(formatted_summary),
                        model_used |-> "huggingface_model",
                        provider |-> "huggingface"]>>
        /\ pc' = "returned"

HFCombineAlwaysRecompresses(ss) ==
    IF Len(ss) > 1
    THEN pc' = "hf_recompress" /\ UNCHANGED <<formatted, result>>
    ELSE HFReturn(ss[1])

\* lines 133-149, once every chunk has its partial summary
HFCombine(ss) ==
    IF Len(ss) > 1
    THEN IF word_count(combine_summaries(ss)) > max_length
         THEN pc' = "hf_recompress" /\ UNCHANGED <<formatted, result>>
         ELSE HFReturn(combine_summaries(ss))
    ELSE HFReturn(ss[1])

\* summarize dispatches to _summarize_with_huggingface, which chunks the text
SummarizeWithHuggingface ==
    /\ pc = "summarize"
    /\ provider = "huggingface"
    /\ chunks' = split_text_into_chunks(text, max_chunk_length)
    /\ summaries' = <<>>
    /\ IF chunks' = <<>>
       THEN Raise("Hugging Face summarization failed: ", "list index out of range")
       ELSE pc' = "hf_chunk" /\ UNCHANGED error
    /\ UNCHANGED <<mode, invocations, provider, text, max_length, style, calls, formatted, result,
                   route_vars, whisper_vars>>

\* a failed chunk is skipped and the loop goes on
HFSummarizeChunkSkipsFailure ==
    /\ pc = "hf_chunk"
    /\ LET chunk == chunks[Len(summaries) + 1]
       IN  \E reply \in BackendReplies(chunk) :
             /\ calls' = Append(calls, SummarizerCall(chunk, reply))
             /\ summaries' = Append(summaries, reply.output)
             /\ IF Len(summaries') < Len(chunks)
                THEN pc' = "hf_chunk" /\ UNCHANGED <<formatted, result>>
                ELSE HFCombine(summaries')
             /\ UNCHANGED error
    /\ UNCHANGED <<mode, invocations, provider, text, max_length, style, chunks,
                   route_vars, whisper_vars>>

\* one turn of the chunk loop: the backend answers for the next chunk
HFSummarizeChunk ==
    /\ pc = "hf_chunk"
    /\ LET chunk == chunks[Len(summaries) + 1]
       IN  \E reply \in BackendReplies(chunk) :
             /\ calls' = Append(calls, SummarizerCall(chunk, reply))
             /\ IF reply.outcome = "raise"
                THEN /\ Raise("Hugging Face summarization failed: ", reply.cause)
                     /\ UNCHANGED <<summaries, formatted, result>>
                ELSE /\ summaries' = Append(summaries, reply.output)
                     /\ IF Len(summaries') < Len(chunks)
                        THEN pc' = "hf_chunk" /\ UNCHANGED <<formatted, result>>
                        ELSE HFCombine(summaries')
                     /\ UNCHANGED error
    /\ UNCHANGED <<mode, invocations, provider, text, max_length, style, chunks,
                   route_vars, whisper_vars>>

\* lines 137-145: the backend answers for the joined partial summaries
HFRecompress ==
    /\ pc = "hf_recompress"
    /\ LET combined_summary == combine_summaries(summaries)
       IN  \E reply \in BackendReplies(combined_summary) :
             /\ calls' = Append(calls, SummarizerCall(combined_summary, reply))
             /\ IF reply.outcome = "raise"
                THEN /\ Raise("Hugging Face summarization failed: ", reply.cause)
                     /\ UNCHANGED <<formatted, result>>
                ELSE HFReturn(reply.output) /\ UNCHANGED error
    /\ UNCHANGED <<mode, invocations, provider, text, max_length, style, chunks, summaries,
                   route_vars, whisper_vars>>

\* LLMService._create_openai_prompt
StyleInstruction(st) ==
    IF st = "bullet_points"
    THEN "Use bullet points to highlight key information and action items. "
    ELSE IF st = "paragraph" THEN "Provide a coherent paragraph summary. "
    ELSE IF st = "executive"
    THEN "Create an executive summary suitable for business presentations. "
    ELSE IF st = "technical"
    THEN "Provide a technical summary with specific details and terminology. "
    ELSE ""

create_openai_prompt(t, st) ==
    [instruction |-> StyleInstruction(st), word_limit |-> PromptWordLimit, text |-> t]

\* summarize dispatches to _summarize_with_openai: one chat completion
SummarizeWithOpenAI ==
    /\ pc = "summarize"
    /\ provider = "openai"
    /\ \E reply \in BackendReplies(text) :
         /\ calls' = Append(calls,
                [fn |-> "ChatCompletion", input |-> create_openai_prompt(text, style),
                 max_tokens |-> max_length * 2, outcome |-> reply.outcome,
                 output |-> reply.output, cause |-> reply.cause])
         /\ IF reply.outcome = "raise"
            THEN /\ Raise("OpenAI summarization failed: ", reply.cause)
                 /\ UNCHANGED <<formatted, result>>
            ELSE /\ result' = <<[summary |-> strip(reply.output),
                                 word_count |-> word_count(strip(reply.output)),
                                 model_used |-> "openai_model",
                                 provider |-> "openai"]>>
                 /\ pc' = "returned"
                 /\ UNCHANGED <<formatted, error>>
    /\ UNCHANGED <<mode, invocations, provider, text, max_length, style, chunks, summaries,
                   route_vars, whisper_vars>>

----------------------------------------------------------------------------
(* LLMService.summarize on its own: one call                               *)

InitSummarize ==
    /\ mode = "summarize"
    /\ invocations = <<>>
    /\ pc = "summarize"
    /\ provider \in Providers
    /\ text \in ServiceTexts
    /\ max_length \in WordLimits
    /\ style \in Styles
    /\ chunks = <<>> /\ summaries = <<>> /\ calls = <<>>
    /\ formatted = <<>> /\ result = <<>> /\ error = <<>>
    /\ NoRoute /\ NoTranscription

NextSummarize ==
    \/ SummarizeWithHuggingface
    \/ HFSummarizeChunk
    \/ HFRecompress
    \/ SummarizeWithOpenAI

SpecSummarize == InitSummarize /\ [][NextSummarize]_vars

----------------------------------------------------------------------------
(* audio_utils.validate_audio_file                                         *)

UpperCase == 
    <<"A", "B", "C", "D", "E", "F", "G", "H", "I", "J", "K", "L", "M">>
      \o <<"N", "O", "P", "Q", "R", "S", "T", "U", "V", "W", "X", "Y", "Z">>
LowerCase == 
    <<"a", "b", "c", "d", "e", "f", "g", "h", "i", "j", "k", "l", "m">>
      \o <<"n", "o", "p", "q", "r", "s", "t", "u", "v", "w", "x", "y", "z">>

\* s.lower()
lower(s) ==
    [i \in 1..Len(s) |->
        IF \E k \in 1..Len(UpperCase) : UpperCase[k] = s[i]
        THEN LowerCase[CHOOSE k \in 1..Len(UpperCase) : UpperCase[k] = s[i]]
        ELSE s[i]]

\* os.path.splitext(p)[1]: from the last dot on, unless only dots precede it in
\* the last path component
splitext_ext(p) ==
    LET dots == {i \in 1..Len(p) : p[i] = "."}
        seps == {i \in 1..Len(p) : p[i] = "/"}
        sep == IF seps = {} THEN 0 ELSE Max(seps)
    IN  IF dots = {} THEN <<>>
        ELSE IF Max(dots) > sep /\ \E k \in (sep + 1)..(Max(dots) - 1) : p[k] # "."
             THEN SubSeq(p, Max(dots), Len(p))
             ELSE <<>>

SUPPORTED_FORMATS ==
    {"audio/mpeg", "audio/wav", "audio/x-wav", "audio/mp4", "audio/x-m4a",
     "audio/flac", "audio/x-flac", "audio/ogg", "audio/webm"}

SUPPORTED_EXTENSIONS ==
    {<<".", "m", "p", "3">>, <<".", "w", "a", "v">>,
     <<".", "m", "4", "a">>, <<".", "f", "l", "a", "c">>,
     <<".", "o", "g", "g">>, <<".", "w", "e", "b", "m">>}

max_size == 52428800

\* file = [filename, content_type ("" when absent), size (the byte length),
\* position (the read position of file.file), fault (the stream call that
\* raises: "seek_end" line 59, "tell" line 60, "rewind" line 61, or "none")]

validate_checks_size_ge(file) ==
    IF file.filename = <<>> THEN "False"
    ELSE IF splitext_ext(lower(file.filename)) \notin SUPPORTED_EXTENSIONS THEN "False"
    ELSE IF file.content_type # "" /\ file.content_type \notin SUPPORTED_FORMATS THEN "False"
    ELSE IF file.fault # "none" THEN "raise"
    ELSE IF file.size >= max_size THEN "False"
    ELSE IF file.size = 0 THEN "False"
    ELSE "True"

\* the body of the try block, lines 41-73: what it returns, or "raise" when a
\* stream call raises
validate_checks(file) ==
    IF file.filename = <<>> THEN "False"
    ELSE IF splitext_ext(lower(file.filename)) \notin SUPPORTED_EXTENSIONS THEN "False"
    ELSE IF file.content_type # "" /\ file.content_type \notin SUPPORTED_FORMATS THEN "False"
    ELSE IF file.fault # "none" THEN "raise"
    ELSE IF file.size > max_size THEN "False"
    ELSE IF file.size = 0 THEN "False"
    ELSE "True"

validate_outcome_uncaught(file) == validate_checks(file)

\* lines 40-77 with "except Exception: return False": how the call ends
validate_outcome(file) ==
    IF validate_checks(file) = "raise" THEN "False" ELSE validate_checks(file)

validate_audio_file(file) == validate_outcome(file) = "True"

\* lines 59-61: the upload once validate_audio_file has ended. seek(0, 2) moves
\* the read position to the end, seek(0) to the start; a call that raises
\* leaves it where the calls before it put it
after_validation(file) ==
    IF \/ file.filename = <<>>
       \/ splitext_ext(lower(file.filename)) \notin SUPPORTED_EXTENSIONS
       \/ file.content_type # "" /\ file.content_type \notin SUPPORTED_FORMATS
    THEN file
    ELSE [file EXCEPT !.position =
              CASE file.fault = "seek_end" -> file.position
                [] file.fault \in {"tell", "rewind"} -> file.size
                [] OTHER -> 0]

----------------------------------------------------------------------------
(* Requests                                                                *)

text_min_length == 10    \* SummaryRequest.text: Field(min_length=10)
MinTextChars == 10       \* summarize_text: len(request.text) < 10
MaxBatch == 10           \* summarize_batch_texts: len(request) > 10

NineChars == <<"a", "b", "c", "d", "e", "f", "g", "h", "i">>
PaddedA == <<"a">> \o Rep(" ", text_min_length - 1)
TwoChunkText == Rep("a", max_chunk_length \div 2) \o <<" ">> \o Rep("a", max_chunk_length \div 2)

RawTexts ==
    {TenWords, TenChars, NineChars, PaddedA, Rep(" ", text_min_length), TwoChunkText}

\* schemas.SummaryRequest: min_length on the text as sent, then validate_text
SchemaAccepts(raw) == Len(raw) >= text_min_length /\ strip(raw) # <<>>
SummaryRequest(raw, ml, st) == [text |-> strip(raw), max_length |-> ml, style |-> st]

\* the items of a batch: the one-chunk texts, with the smallest word limit
BatchRequests ==
    {SummaryRequest(raw, MinMaxLength, "bullet_points") :
        raw \in {TenWords, TenChars, PaddedA}}

RECURSIVE BatchesUpTo(_)
BatchesUpTo(n) ==
    IF n = 0 THEN {<<>>}
    ELSE LET shorter == BatchesUpTo(n - 1)
         IN  shorter \cup {Append(b, r) : b \in shorter, r \in BatchRequests}

Batches ==
    BatchesUpTo(MaxBatchDrawn)
      \cup {[i \in 1..(MaxBatch + 1) |-> r] : r \in BatchRequests}

Filenames ==
    {<<>>, <<"c", "l", "i", "p", ".", "m", "p", "3">>, <<"C", "L", "I", "P", ".", "W", "A", "V">>,
     <<"c", "l", "i", "p", ".", "t", "x", "t">>, <<"c", "l", "i", "p">>, <<".", "m", "p", "3">>}

StreamFaults == {"none", "seek_end", "tell", "rewind"}

\* the uploads validate_audio_file may be handed: any read position
ValidatorUploads ==
    {f \in [filename : Filenames,
            content_type : {"", "audio/mpeg", "text/plain"},
            size : {0, 1, max_size, max_size + 1},
            position : {0, 1},
            fault : StreamFaults] : f.position <= f.size}

\* the uploads the framework hands to the route: not read yet
Uploads == {f \in ValidatorUploads : f.position = 0}

TempPaths == {"tmp1", "tmp2"}
SaveOutcomes == {"saved", "create_fails", "write_fails"}

\* what the transcription backend answers: text, language, the segments with
\* their avg_logprob and end, and the "duration" key of the OpenAI response
\* (<<>> when the response has none)
LogProbs == {Rat(0 - 3, 1), Rat(0 - 1, 1), Rat(0, 1), Rat(3, 1)}
EndTimes == {Rat(5, 1), Rat(25, 2)}
Segments == [avg_logprob : LogProbs, end : EndTimes]
SegmentLists == UNION {[1..n -> Segments] : n \in 0..MaxSegments}
ResponseDurations == {<<>>, <<Rat(25, 2)>>}
WhisperReplies ==
    [outcome : {"ok"}, text : {PaddedShort}, language : {"en"},
     segments : SegmentLists, duration : ResponseDurations, cause : {""}]
      \cup {[outcome |-> "raise", text |-> <<>>, language |-> "", segments |-> <<>>,
              duration |-> <<>>, cause |-> "model error"]}

----------------------------------------------------------------------------
(* WhisperService.transcribe                                               *)

\* _save_uploaded_file, and transcribe's except and finally when it raises:
\* temp_file is bound only by a save that returns
SaveUploadedFile ==
    /\ pc = "w_save"
    /\ \E outcome \in SaveOutcomes :
         LET temp_path == CHOOSE q \in TempPaths : q \notin disk
         IN  IF outcome = "create_fails"
             THEN /\ w_error' = <<"Transcription failed: ",
                                  "Failed to save uploaded file: ", "cannot create">>
                  /\ pc' = "raised"
                  /\ UNCHANGED <<disk, created, temp_file>>
             ELSE /\ disk' = disk \cup {temp_path}
                  /\ created' = created \cup {temp_path}
                  /\ IF outcome = "write_fails"
                     THEN /\ w_error' = <<"Transcription failed: ",
                                          "Failed to save uploaded file: ", "cannot write">>
                          /\ pc' = "raised"
                          /\ UNCHANGED temp_file
                     ELSE /\ temp_file' = <<temp_path>>
                          /\ pc' = "w_transcribe"
                          /\ UNCHANGED w_error
    /\ UNCHANGED <<mode, invocations, llm_vars, route_vars, use_openai_whisper, transcription,
                   w_calls>>

\* _cleanup_temp_file: the file is gone unless os.unlink raises
cleanup_temp_file(files, file_path, unlink_ok) ==
    IF file_path \in files /\ unlink_ok THEN files \ {file_path} ELSE files

\* _transcribe_with_openai, lines 106-121: the confidence is a constant and the
\* duration is the response's own "duration" key
transcribe_with_openai(resp) ==
    [transcript |-> resp.text,
     language |-> resp.language,
     confidence |-> Rat(19, 20),
     duration |-> IF resp.duration = <<>> THEN Rat(0, 1)
                  ELSE resp.duration[1]]

local_confidence_default_openai(segments) ==
    IF segments # <<>>
    THEN LET confidences == [i \in 1..Len(segments) |-> segments[i].avg_logprob]
             confidence == RatDiv(rat_sum(confidences), Len(confidences))
         IN  rat_max(Rat(0, 1), rat_min(Rat(1, 1), RatDiv(RatAdd(confidence, Rat(1, 1)), 2)))
    ELSE Rat(19, 20)

local_confidence_unclamped(segments) ==
    IF segments # <<>>
    THEN LET confidences == [i \in 1..Len(segments) |-> segments[i].avg_logprob]
             confidence == RatDiv(rat_sum(confidences), Len(confidences))
         IN  RatDiv(RatAdd(confidence, Rat(1, 1)), 2)
    ELSE Rat(4, 5)

\* _transcribe_with_local, lines 140-147; result.get("segments", []) makes an
\* absent key the empty list
local_confidence(segments) ==
    IF segments # <<>>
    THEN LET confidences == [i \in 1..Len(segments) |-> segments[i].avg_logprob]
             confidence == RatDiv(rat_sum(confidences), Len(confidences))
         IN  rat_max(Rat(0, 1), rat_min(Rat(1, 1), RatDiv(RatAdd(confidence, Rat(1, 1)), 2)))
    ELSE Rat(4, 5)

local_duration_longest(segments) ==
    IF segments # <<>>
    THEN LET k == CHOOSE i \in 1..Len(segments) :
                      \A j \in 1..Len(segments) :
                          ~RatLt(segments[i].end, segments[j].end)
         IN  segments[k].end
    ELSE Rat(0, 1)

\* _transcribe_with_local, lines 149-152
local_duration(segments) ==
    IF segments # <<>> THEN segments[Len(segments)].end ELSE Rat(0, 1)

\* _transcribe_with_local, lines 136-160
transcribe_with_local(res) ==
    [transcript |-> strip(res.text),
     language |-> res.language,
     confidence |-> local_confidence(res.segments),
     duration |-> local_duration(res.segments)]

\* _transcribe_with_openai / _transcribe_with_local, then transcribe's finally
WhisperTranscribe ==
    /\ pc = "w_transcribe"
    /\ \E reply \in WhisperReplies, unlink_ok \in BOOLEAN :
         /\ w_calls' = Append(w_calls,
                              [backend |-> IF use_openai_whisper THEN "openai"
                                           ELSE "local",
                               file_path |-> temp_file[1], reply |-> reply])
         /\ IF reply.outcome = "raise"
            THEN /\ w_error' = <<"Transcription failed: ",
                                 IF use_openai_whisper
                                 THEN "OpenAI transcription failed: "
                                 ELSE "Local transcription failed: ",
                                 reply.cause>>
                 /\ pc' = "raised"
                 /\ UNCHANGED transcription
            ELSE /\ transcription' =
                        <<IF use_openai_whisper THEN transcribe_with_openai(reply)
                          ELSE transcribe_with_local(reply)>>
                 /\ pc' = "returned"
                 /\ UNCHANGED w_error
         /\ disk' = cleanup_temp_file(disk, temp_file[1], unlink_ok)
    /\ UNCHANGED <<mode, invocations, llm_vars, route_vars, created, temp_file, use_openai_whisper>>

----------------------------------------------------------------------------
(* The route handlers                                                      *)

\* "raise HTTPException(status_code=400, ...)" inside the handler's try: the
\* handler's "except Exception" catches it and raises HTTPException(500)
Reject(prefix, detail) ==
    /\ rejected' = detail
    /\ response' = <<[status |-> 500, body |-> <<>>,
                      detail |-> <<prefix, "400: ", detail>>]>>
    /\ pc' = "responded"

\* await llm_service.summarize(text=..., max_length=..., style=...)
CallSummarize(req) ==
    /\ text' = req.text /\ max_length' = req.max_length /\ style' = req.style
    /\ chunks' = <<>> /\ summaries' = <<>> /\ calls' = <<>>
    /\ formatted' = <<>> /\ result' = <<>> /\ error' = <<>>
    /\ pc' = "summarize"

call_vars == <<text, max_length, style, chunks, summaries, calls, formatted, result, error>>

SummaryResponse(res, req) ==
    [summary |-> res.summary, word_count |-> res.word_count,
     original_length |-> Len(req.text), style |-> req.style,
     model_used |-> res.model_used]

\* routes/summarize.py summarize_text, up to the await
SummarizeText ==
    /\ pc = "idle"
    /\ \E raw \in RawTexts, ml \in WordLimits, st \in Styles :
         /\ SchemaAccepts(raw)
         /\ LET req == SummaryRequest(raw, ml, st)
            IN  /\ handler' = "summarize"
                /\ request' = <<req>>
                /\ IF req.text = <<>> \/ Len(strip(req.text)) = 0
                   THEN /\ Reject("Summarization failed: ", "Text cannot be empty")
                        /\ UNCHANGED call_vars
                   ELSE IF Len(req.text) < MinTextChars
                   THEN /\ Reject("Summarization failed: ",
                                  "Text too short for summarization")
                        /\ UNCHANGED call_vars
                   ELSE /\ CallSummarize(req)
                        /\ UNCHANGED <<rejected, response>>
    /\ UNCHANGED <<mode, invocations, provider, upload, validated, results, svc_outcomes, whisper_vars>>

\* a failure of summarize is answered 200 with an empty summary
SummarizeTextDoneHidesFailure ==
    /\ handler = "summarize"
    /\ pc \in {"returned", "raised"}
    /\ svc_outcomes' = Append(svc_outcomes, pc)
    /\ response' = <<[status |-> 200,
                      body |-> <<IF pc = "returned"
                                 THEN SummaryResponse(result[1], request[1])
                                 ELSE [summary |-> <<>>, word_count |-> 0,
                                       original_length |-> Len(request[1].text),
                                       style |-> request[1].style,
                                       model_used |-> "unknown"]>>,
                      detail |-> <<>>]>>
    /\ pc' = "responded"
    /\ UNCHANGED <<mode, invocations, llm_vars, handler, request, upload, validated, results, rejected,
                   whisper_vars>>

\* summarize_text, after the await
SummarizeTextDone ==
    /\ handler = "summarize"
    /\ pc \in {"returned", "raised"}
    /\ svc_outcomes' = Append(svc_outcomes, pc)
    /\ IF pc = "returned"
       THEN response' = <<[status |-> 200,
                           body |-> <<SummaryResponse(result[1], request[1])>>,
                           detail |-> <<>>]>>
       ELSE response' = <<[status |-> 500, body |-> <<>>,
                           detail |-> <<"Summarization failed: ">> \o error]>>
    /\ pc' = "responded"
    /\ UNCHANGED <<mode, invocations, llm_vars, handler, request, upload, validated, results, rejected,
                   whisper_vars>>

\* summarize_batch_texts, up to the first await
SummarizeBatchTexts ==
    /\ pc = "idle"
    /\ \E batch \in Batches :
         /\ handler' = "batch"
         /\ request' = batch
         /\ IF Len(batch) = 0
            THEN /\ Reject("Batch summarization failed: ",
                           "No texts provided for batch summarization")
                 /\ UNCHANGED call_vars
            ELSE IF Len(batch) > MaxBatch
            THEN /\ Reject("Batch summarization failed: ",
                           "Too many texts for batch processing (max 10)")
                 /\ UNCHANGED call_vars
            ELSE /\ CallSummarize(batch[1])
                 /\ UNCHANGED <<rejected, response>>
    /\ UNCHANGED <<mode, invocations, provider, upload, validated, results, svc_outcomes, whisper_vars>>

\* summarize_batch_texts: one summarize call has ended
BatchItemDone ==
    /\ handler = "batch"
    /\ pc \in {"returned", "raised"}
    /\ LET req == request[Len(results) + 1]
           entry == IF pc = "returned"
                    THEN SummaryResponse(result[1], req)
                    ELSE [summary |-> <<"Error: ">> \o error, word_count |-> 0,
                          original_length |-> Len(req.text), style |-> req.style,
                          model_used |-> "error"]
       IN  /\ results' = Append(results, entry)
           /\ svc_outcomes' = Append(svc_outcomes, pc)
           /\ IF Len(results') < Len(request)
              THEN /\ CallSummarize(request[Len(results') + 1])
                   /\ UNCHANGED response
              ELSE /\ response' = <<[status |-> 200, body |-> results',
                                     detail |-> <<>>]>>
                   /\ pc' = "responded"
                   /\ UNCHANGED call_vars
    /\ UNCHANGED <<mode, invocations, provider, handler, request, upload, validated, rejected, whisper_vars>>

upload_rejection_never(file) == ""

\* transcribe_audio lines 36-46: the detail of the HTTPException(400) raised for
\* the upload, "" when none is
upload_rejection(file) ==
    IF file.filename = <<>> THEN "No file provided"
    ELSE IF ~validate_audio_file(file)
    THEN "Invalid audio file format. Supported formats: MP3, WAV, M4A, FLAC"
    ELSE ""

\* routes/transcribe.py transcribe_audio, up to the await
TranscribeAudio ==
    /\ pc = "idle"
    /\ \E file \in Uploads :
         /\ handler' = "transcribe"
         /\ IF file.filename = <<>>
            THEN upload' = <<file>> /\ validated' = ""
            ELSE /\ upload' = <<after_validation(file)>>
                 /\ validated' = validate_outcome(file)
         /\ IF upload_rejection(file) # ""
            THEN Reject("Transcription failed: ", upload_rejection(file))
            ELSE pc' = "w_save" /\ UNCHANGED <<rejected, response>>
    /\ UNCHANGED <<mode, invocations, llm_vars, request, results, svc_outcomes, whisper_vars>>

\* transcribe_audio, after the await
TranscribeAudioDone ==
    /\ handler = "transcribe"
    /\ pc \in {"returned", "raised"}
    /\ IF pc = "returned"
       THEN response' = <<[status |-> 200, body |-> transcription, detail |-> <<>>]>>
       ELSE response' = <<[status |-> 500, body |-> <<>>,
                           detail |-> <<"Transcription failed: ">> \o w_error]>>
    /\ pc' = "responded"
    /\ UNCHANGED <<mode, invocations, llm_vars, handler, request, upload, validated, results, svc_outcomes,
                   rejected, whisper_vars>>

----------------------------------------------------------------------------
(* The server: one request from arrival to response                        *)

Init ==
    /\ mode = "route"
    /\ invocations = <<>>
    /\ pc = "idle"
    /\ provider \in Providers
    /\ text = <<>> /\ max_length = 0 /\ style = "paragraph"
    /\ chunks = <<>> /\ summaries = <<>> /\ calls = <<>>
    /\ formatted = <<>> /\ result = <<>> /\ error = <<>>
    /\ NoRoute
    /\ disk = {} /\ created = {} /\ temp_file = <<>>
    /\ use_openai_whisper \in BOOLEAN
    /\ transcription = <<>> /\ w_calls = <<>> /\ w_error = <<>>

Next ==
    \/ SummarizeText
    \/ SummarizeTextDone
    \/ SummarizeBatchTexts
    \/ BatchItemDone
    \/ TranscribeAudio
    \/ TranscribeAudioDone
    \/ SaveUploadedFile
    \/ WhisperTranscribe
    \/ SummarizeWithHuggingface
    \/ HFSummarizeChunk
    \/ HFRecompress
    \/ SummarizeWithOpenAI

Spec == Init /\ [][Next]_vars

----------------------------------------------------------------------------
(* Chunking on its own: one call of _split_text_into_chunks                *)

InitChunk ==
    /\ mode = "chunk"
    /\ invocations = <<>>
    /\ pc = "call"
    /\ text \in ChunkTexts
    /\ max_length \in 1..MaxChunkChars
    /\ style = "paragraph"
    /\ chunks = <<>>
    /\ formatted = <<>>
    /\ provider = "huggingface"
    /\ summaries = <<>> /\ calls = <<>> /\ result = <<>> /\ error = <<>>
    /\ NoRoute /\ NoTranscription

SplitTextIntoChunks ==
    /\ mode = "chunk"
    /\ pc = "call"
    /\ chunks' = split_text_into_chunks(text, max_length)
    /\ pc' = "returned"
    /\ UNCHANGED <<mode, invocations, provider, text, max_length, style, summaries, calls,
                   formatted, result, error, route_vars, whisper_vars>>

NextChunk == SplitTextIntoChunks

SpecChunk == InitChunk /\ [][NextChunk]_vars

----------------------------------------------------------------------------
(* Formatting on its own: one call of _apply_style_formatting              *)

InitFormat ==
    /\ mode = "format"
    /\ invocations = <<>>
    /\ pc = "call"
    /\ text \in FormatSummaries
    /\ max_length = 0
    /\ style \in Styles
    /\ chunks = <<>>
    /\ formatted = <<>>
    /\ provider = "huggingface"
    /\ summaries = <<>> /\ calls = <<>> /\ result = <<>> /\ error = <<>>
    /\ NoRoute /\ NoTranscription

ApplyStyleFormatting ==
    /\ mode = "format"
    /\ pc = "call"
    /\ formatted' = apply_style_formatting(text, style)
    /\ pc' = "returned"
    /\ UNCHANGED <<mode, invocations, provider, text, max_length, style, chunks, summaries,
                   calls, result, error, route_vars, whisper_vars>>

NextFormat == ApplyStyleFormatting

SpecFormat == InitFormat /\ [][NextFormat]_vars

----------------------------------------------------------------------------
(* Validation on its own: one call of validate_audio_file                  *)

InitValidate ==
    /\ mode = "validate"
    /\ invocations = <<>>
    /\ pc = "idle"
    /\ provider = "huggingface"
    /\ text = <<>> /\ max_length = 0 /\ style = "paragraph"
    /\ chunks = <<>> /\ summaries = <<>> /\ calls = <<>>
    /\ formatted = <<>> /\ result = <<>> /\ error = <<>>
    /\ handler = "none" /\ request = <<>>
    /\ upload \in {<<f>> : f \in ValidatorUploads}
    /\ validated = ""
    /\ results = <<>> /\ svc_outcomes = <<>> /\ rejected = "" /\ response = <<>>
    /\ NoTranscription

ValidateAudioFile ==
    /\ mode = "validate"
    /\ pc = "idle"
    /\ validated' = validate_outcome(upload[1])
    /\ upload' = <<after_validation(upload[1])>>
    /\ pc' = "returned"
    /\ UNCHANGED <<mode, invocations, llm_vars, handler, request, results, svc_outcomes, rejected,
                   response, whisper_vars>>

NextValidate == ValidateAudioFile

SpecValidate == InitValidate /\ [][NextValidate]_vars

----------------------------------------------------------------------------
(* Several calls in flight at once on the module-level llm_service and     *)
(* whisper_service. A call's locals are its own; the attributes of the two *)
(* service objects (provider, use_openai_whisper) and the temp directory   *)
(* (disk) are shared. A call may be overtaken wherever it waits for a      *)
(* backend or for the file system.                                         *)

Procs == 1..MaxRequests

\* tempfile.NamedTemporaryFile names a file that does not exist yet
RequestTempPaths == {<<"tmp", i>> : i \in 1..MaxRequests}

ConcurrentTexts == {<<"a">>, TwoChunkText}

ConcurrentReplies(input) ==
    {r \in BackendReplies(input) :
        IF r.outcome = "ok" THEN r.output = TenWords ELSE r.cause = "quota exceeded"}

ConcurrentWhisperReplies ==
    {r \in WhisperReplies : r.segments = <<>> /\ r.duration = <<>>}

\* the locals of a call that has just been entered
NewCall(kind, t) ==
    [kind |-> kind,
     pc |-> IF kind = "summarize" THEN "summarize" ELSE "w_save",
     text |-> t, max_length |-> MinMaxLength, style |-> "executive",
     chunks |-> <<>>, summaries |-> <<>>, calls |-> <<>>,
     result |-> <<>>, error |-> <<>>,
     temp_file |-> <<>>, created |-> {}, deleted |-> {},
     w_calls |-> <<>>, transcription |-> <<>>]

InitialCalls ==
    {NewCall("summarize", t) : t \in ConcurrentTexts} \cup {NewCall("transcribe", <<>>)}

InitConcurrent ==
    /\ mode = "concurrent"
    /\ pc = "idle"
    /\ provider \in Providers
    /\ text = <<>> /\ max_length = 0 /\ style = "paragraph"
    /\ chunks = <<>> /\ summaries = <<>> /\ calls = <<>>
    /\ formatted = <<>> /\ result = <<>> /\ error = <<>>
    /\ NoRoute
    /\ disk = {} /\ created = {} /\ temp_file = <<>>
    /\ use_openai_whisper \in BOOLEAN
    /\ transcription = <<>> /\ w_calls = <<>> /\ w_error = <<>>
    /\ invocations \in [Procs -> InitialCalls]

\* what a step of one call leaves alone besides the other calls' locals
call_frame ==
    <<mode, pc, llm_vars, route_vars, created, temp_file, use_openai_whisper,
      transcription, w_calls, w_error>>

\* "raise Exception(...)" in the provider's method and again in summarize
raised(c, inner, cause) ==
    [c EXCEPT !.error = <<"Summarization failed: ", inner, cause>>, !.pc = "raised"]

\* lines 151-162
hf_return(c, final_summary) ==
    LET formatted_summary == apply_style_formatting(final_summary, c.style)
    IN  [c EXCEPT !.result = <<[summary |-> formatted_summary,
                                word_count |-> word_count(formatted_summary),
                                model_used |-> "huggingface_model",
                                provider |-> "huggingface"]>>,
                  !.pc = "returned"]

\* lines 133-149
hf_combine(c) ==
    IF Len(c.summaries) > 1
    THEN IF word_count(combine_summaries(c.summaries)) > c.max_length
         THEN [c EXCEPT !.pc = "hf_recompress"]
         ELSE hf_return(c, combine_summaries(c.summaries))
    ELSE hf_return(c, c.summaries[1])

summarizer_call(c, input, reply) ==
    [fn |-> "summarizer", input |-> input, max_length |-> c.max_length,
     min_length |-> HFMinLength, outcome |-> reply.outcome,
     output |-> reply.output, cause |-> reply.cause]

SummarizeWithHuggingfaceOf(p) ==
    LET c == invocations[p]
        cs == split_text_into_chunks(c.text, max_chunk_length)
    IN  /\ c.kind = "summarize" /\ c.pc = "summarize"
        /\ provider = "huggingface"
        /\ invocations' =
              [invocations EXCEPT ![p] =
                  IF cs = <<>>
                  THEN raised([c EXCEPT !.chunks = cs],
                              "Hugging Face summarization failed: ",
                              "list index out of range")
                  ELSE [c EXCEPT !.chunks = cs, !.pc = "hf_chunk"]]
        /\ UNCHANGED <<call_frame, disk>>

HFSummarizeChunkOf(p) ==
    LET c == invocations[p]
    IN  /\ c.kind = "summarize" /\ c.pc = "hf_chunk"
        /\ LET chunk == c.chunks[Len(c.summaries) + 1]
           IN  \E reply \in ConcurrentReplies(chunk) :
                 LET called == [c EXCEPT !.calls = Append(c.calls,
                                              summarizer_call(c, chunk, reply))]
                     added == [called EXCEPT !.summaries =
                                                 Append(c.summaries, reply.output)]
                 IN  invocations' =
                       [invocations EXCEPT ![p] =
                           IF reply.outcome = "raise"
                           THEN raised(called, "Hugging Face summarization failed: ",
                                       reply.cause)
                           ELSE IF Len(added.summaries) < Len(c.chunks)
                           THEN added
                           ELSE hf_combine(added)]
        /\ UNCHANGED <<call_frame, disk>>

HFRecompressOf(p) ==
    LET c == invocations[p]
    IN  /\ c.kind = "summarize" /\ c.pc = "hf_recompress"
        /\ LET combined_summary == combine_summaries(c.summaries)
           IN  \E reply \in ConcurrentReplies(combined_summary) :
                 LET called == [c EXCEPT !.calls = Append(c.calls,
                                     summarizer_call(c, combined_summary, reply))]
                 IN  invocations' =
                       [invocations EXCEPT ![p] =
                           IF reply.outcome = "raise"
                           THEN raised(called, "Hugging Face summarization failed: ",
                                       reply.cause)
                           ELSE hf_return(called, reply.output)]
        /\ UNCHANGED <<call_frame, disk>>

SummarizeWithOpenAIOf(p) ==
    LET c == invocations[p]
    IN  /\ c.kind = "summarize" /\ c.pc = "summarize"
        /\ provider = "openai"
        /\ \E reply \in ConcurrentReplies(c.text) :
             LET called ==
                   [c EXCEPT !.calls = Append(c.calls,
                       [fn |-> "ChatCompletion",
                        input |-> create_openai_prompt(c.text, c.style),
                        max_tokens |-> c.max_length * 2, outcome |-> reply.outcome,
                        output |-> reply.output, cause |-> reply.cause])]
             IN  invocations' =
                   [invocations EXCEPT ![p] =
                       IF reply.outcome = "raise"
                       THEN raised(called, "OpenAI summarization failed: ", reply.cause)
                       ELSE [called EXCEPT
                                !.result = <<[summary |-> strip(reply.output),
                                              word_count |-> word_count(strip(reply.output)),
                                              model_used |-> "openai_model",
                                              provider |-> "openai"]>>,
                                !.pc = "returned"]]
        /\ UNCHANGED <<call_frame, disk>>

bind_temp_file_on_service(cs, p, path) ==
    [q \in DOMAIN cs |-> [cs[q] EXCEPT !.temp_file = <<path>>]]

\* whisper_service.py line 58: temp_file is a local of the call
bind_temp_file(cs, p, path) == [cs EXCEPT ![p].temp_file = <<path>>]

SaveUploadedFileOf(p) ==
    LET c == invocations[p]
    IN  /\ c.kind = "transcribe" /\ c.pc = "w_save"
        /\ \E outcome \in SaveOutcomes :
             LET temp_path == CHOOSE q \in RequestTempPaths : q \notin disk
                 made == [c EXCEPT !.created = c.created \cup {temp_path}]
             IN  IF outcome = "create_fails"
                 THEN /\ invocations' =
                           [invocations EXCEPT ![p] =
                               [c EXCEPT !.error = <<"Transcription failed: ",
                                             "Failed to save uploaded file: ",
                                             "cannot create">>,
                                         !.pc = "raised"]]
                      /\ UNCHANGED disk
                 ELSE /\ disk' = disk \cup {temp_path}
                      /\ IF outcome = "write_fails"
                         THEN invocations' =
                                [invocations EXCEPT ![p] =
                                    [made EXCEPT !.error = <<"Transcription failed: ",
                                                    "Failed to save uploaded file: ",
                                                    "cannot write">>,
                                                 !.pc = "raised"]]
                         ELSE invocations' =
                                bind_temp_file(
                                    [invocations EXCEPT ![p] =
                                        [made EXCEPT !.pc = "w_transcribe"]],
                                    p, temp_path)
        /\ UNCHANGED call_frame

WhisperTranscribeOf(p) ==
    LET c == invocations[p]
    IN  /\ c.kind = "transcribe" /\ c.pc = "w_transcribe"
        /\ \E reply \in ConcurrentWhisperReplies, unlink_ok \in BOOLEAN :
             LET file_path == c.temp_file[1]
                 called == [c EXCEPT
                              !.w_calls = Append(c.w_calls,
                                  [backend |-> IF use_openai_whisper THEN "openai"
                                               ELSE "local",
                                   file_path |-> file_path, reply |-> reply]),
                              !.deleted = c.deleted \cup
                                  (disk \ cleanup_temp_file(disk, file_path, unlink_ok))]
             IN  /\ invocations' =
                       [invocations EXCEPT ![p] =
                           IF reply.outcome = "raise"
                           THEN [called EXCEPT
                                    !.error = <<"Transcription failed: ",
                                                IF use_openai_whisper
                                                THEN "OpenAI transcription failed: "
                                                ELSE "Local transcription failed: ",
                                                reply.cause>>,
                                    !.pc = "raised"]
                           ELSE [called EXCEPT
                                    !.transcription =
                                        <<IF use_openai_whisper
                                          THEN transcribe_with_openai(reply)
                                          ELSE transcribe_with_local(reply)>>,
                                    !.pc = "returned"]]
                 /\ disk' = cleanup_temp_file(disk, file_path, unlink_ok)
        /\ UNCHANGED call_frame

NextConcurrent ==
    \/ \E p \in Procs : SummarizeWithHuggingfaceOf(p)
    \/ \E p \in Procs : HFSummarizeChunkOf(p)
    \/ \E p \in Procs : HFRecompressOf(p)
    \/ \E p \in Procs : SummarizeWithOpenAIOf(p)
    \/ \E p \in Procs : SaveUploadedFileOf(p)
    \/ \E p \in Procs : WhisperTranscribeOf(p)

SpecConcurrent == InitConcurrent /\ [][NextConcurrent]_vars

----------------------------------------------------------------------------
(* C1: the tokens of the chunks, read chunk by chunk in order, are exactly *)
(* the whitespace-delimited tokens of the text, and no chunk is empty.     *)

ChunkTokens(cs) == Concat([i \in 1..Len(cs) |-> split(cs[i])])

C1_TokensPreserved ==
    (mode = "chunk" /\ pc = "returned") =>
        /\ ChunkTokens(chunks) = split(text)
        /\ \A i \in 1..Len(chunks) : split(chunks[i]) # <<>>

C1_Witness ==
    /\ mode = "chunk" /\ pc = "returned"
    /\ Len(chunks) >= 2
    /\ \E i \in 1..Len(chunks) : Len(split(chunks[i])) >= 2

----------------------------------------------------------------------------
(* C2: a chunk holding more than one token is at most max_length           *)
(* characters long; a chunk longer than max_length is exactly one token of *)
(* the text, longer than max_length on its own and kept whole.             *)

C2_ChunkWithinLimit ==
    (mode = "chunk" /\ pc = "returned") =>
        \A i \in 1..Len(chunks) :
            /\ Len(split(chunks[i])) > 1 => Len(chunks[i]) <= max_length
            /\ Len(chunks[i]) > max_length =>
                  /\ split(chunks[i]) = <<chunks[i]>>
                  /\ \E k \in 1..Len(split(text)) : split(text)[k] = chunks[i]

C2_Witness ==
    /\ mode = "chunk" /\ pc = "returned"
    /\ \E i \in 1..Len(chunks) : Len(chunks[i]) > max_length
    /\ \E i \in 1..Len(chunks) :
          Len(split(chunks[i])) > 1 /\ Len(chunks[i]) = max_length

----------------------------------------------------------------------------
(* C3: a text whose tokens, joined by single spaces, are at most           *)
(* max_length characters long comes back as exactly one chunk equal to it, *)
(* also when that length is exactly max_length.                            *)

C3_FittingTextIsOneChunk ==
    (/\ mode = "chunk" /\ pc = "returned"
     /\ split(text) # <<>>
     /\ Len(join(<<" ">>, split(text))) <= max_length) =>
        chunks = <<join(<<" ">>, split(text))>>

----------------------------------------------------------------------------
(* C4: on every exit path of WhisperService.transcribe (success, failure   *)
(* while saving the upload, backend failure) every temp file created for   *)
(* the call has been deleted by the time transcribe returns or raises.     *)

C4_NoTempFileOutlivesTranscribe ==
    (handler = "transcribe" /\ pc \in {"returned", "raised", "responded"}) =>
        created \cap disk = {}

----------------------------------------------------------------------------
(* C5: a request the handler's own validation rejects is answered with a   *)
(* 400-class status; a 500-class status is produced only when the backend  *)
(* or processing step fails.                                               *)

C5_ValidationAnswers400 ==
    pc = "responded" =>
        /\ rejected # "" => response[1].status \in 400..499
        /\ response[1].status \in 500..599 => rejected = ""

----------------------------------------------------------------------------
(* C6: when the backend fails on a chunk or on the re-compression call,    *)
(* summarize returns no result, sends nothing more to the backend and      *)
(* raises one exception whose message holds the backend's cause.           *)

C6_BackendFailureAborts ==
    mode = "summarize" =>
        \A i \in 1..Len(calls) :
            calls[i].outcome = "raise" =>
                /\ i = Len(calls)
                /\ pc = "raised"
                /\ result = <<>>
                /\ error # <<>>
                /\ error[Len(error)] = calls[i].cause

C6_Witness ==
    /\ mode = "summarize" /\ pc = "raised"
    /\ Len(summaries) >= 1
    /\ Len(chunks) >= Len(summaries) + 2
    /\ calls[Len(calls)].outcome = "raise"

----------------------------------------------------------------------------
(* C7, as claimed: whenever llm_service.summarize raises for a requested   *)
(* text, in the single route and in the batch route, the caller receives   *)
(* an error response and never a 200 carrying a SummaryResponse for it.    *)

C7_FailureNeverAnswered200 ==
    (pc = "responded" /\ handler \in {"summarize", "batch"}) =>
        \A i \in 1..Len(svc_outcomes) :
            svc_outcomes[i] = "raised" =>
                /\ response[1].status >= 400
                /\ response[1].body = <<>>

(* C7, amended: when llm_service.summarize raises, the single route        *)
(* answers 500 without a SummaryResponse; the batch route answers 200 and  *)
(* the entry for that text is a SummaryResponse marked as an error:        *)
(* summary "Error: " followed by the failure message, word_count 0,        *)
(* model_used "error".                                                     *)

C7_FailureIsMarked ==
    (pc = "responded" /\ handler \in {"summarize", "batch"}) =>
        \A i \in 1..Len(svc_outcomes) :
            svc_outcomes[i] = "raised" =>
                /\ handler = "summarize" =>
                      /\ response[1].status = 500
                      /\ response[1].body = <<>>
                /\ handler = "batch" =>
                      /\ response[1].status = 200
                      /\ response[1].body[i].model_used = "error"
                      /\ response[1].body[i].word_count = 0
                      /\ response[1].body[i].summary[1] = "Error: "
                      /\ response[1].body[i].summary[2] = "Summarization failed: "

C7_Witness ==
    /\ pc = "responded" /\ handler = "batch"
    /\ svc_outcomes = <<"raised", "returned">>
    /\ response[1].status = 200
    /\ response[1].body[1].model_used = "error"

----------------------------------------------------------------------------
(* C8: with an echoing backend, paragraph style, a text of exactly two     *)
(* chunks and max_length at least the text's word count, the summary is    *)
(* the first chunk, one space, the second chunk; with n > 1 chunks and no  *)
(* re-compression the combined summary is the partial summaries joined by  *)
(* single spaces in chunk order.                                           *)

RECURSIVE SpacedOutputs(_)
SpacedOutputs(n) ==
    IF n = 1 THEN calls[1].output
    ELSE SpacedOutputs(n - 1) \o <<" ">> \o calls[n].output

EchoBackend == \A i \in 1..Len(calls) : calls[i].output = calls[i].input

C8_CombinedBySpaces ==
    (mode = "summarize" /\ pc = "returned" /\ provider = "huggingface") =>
        /\ (/\ style = "paragraph"
            /\ Len(chunks) = 2
            /\ EchoBackend
            /\ max_length >= word_count(text)) =>
               /\ Len(calls) = 2
               /\ result[1].summary = chunks[1] \o <<" ">> \o chunks[2]
        /\ (Len(chunks) > 1 /\ Len(calls) = Len(chunks)) =>
               result[1].summary =
                   apply_style_formatting(SpacedOutputs(Len(calls)), style)

C8_Witness ==
    /\ mode = "summarize" /\ pc = "returned" /\ provider = "huggingface"
    /\ style = "paragraph"
    /\ Len(chunks) = 2
    /\ Len(calls) = 2
    /\ EchoBackend
    /\ max_length >= word_count(text)

----------------------------------------------------------------------------
(* C9: given a backend whose every output has at most max_length words,    *)
(* the word_count summarize returns is at most max_length, for every style *)
(* and any number of chunks.                                               *)

C9_WordCountWithinLimit ==
    (/\ mode = "summarize" /\ pc = "returned"
     /\ \A i \in 1..Len(calls) : word_count(calls[i].output) <= max_length) =>
        result[1].word_count <= max_length

----------------------------------------------------------------------------
(* C10: bullet_points formatting cuts the summary at every maximal run of  *)
(* '.', '!' or '?', trims each fragment, keeps exactly the fragments whose *)
(* trimmed length is more than 10 characters, in order, one bullet each,   *)
(* joined by newlines; the example summary gives exactly two bullets and   *)
(* a summary without a fragment longer than 10 characters gives "".        *)

\* <<i, j>>: s[i..j] holds no terminator and cannot be extended either way
Blocks(s) ==
    {b \in (1..Len(s)) \X (1..Len(s)) :
        /\ b[1] <= b[2]
        /\ \A k \in b[1]..b[2] : s[k] \notin Terminators
        /\ b[1] = 1 \/ s[b[1] - 1] \in Terminators
        /\ b[2] = Len(s) \/ s[b[2] + 1] \in Terminators}

Trimmed(s, b) ==
    LET inner == {k \in b[1]..b[2] : s[k] \notin Whitespace}
    IN  IF inner = {} THEN <<>>
        ELSE [k \in 1..(Max(inner) - Min(inner) + 1) |-> s[Min(inner) + k - 1]]

KeptBlocks(s) == {b \in Blocks(s) : Len(Trimmed(s, b)) > 10}

RECURSIVE BulletText(_, _)
BulletText(s, blocks) ==
    IF blocks = {} THEN <<>>
    ELSE LET b == CHOOSE x \in blocks : \A y \in blocks : x[1] <= y[1]
             rest == blocks \ {b}
         IN  <<Bullet, " ">> \o Trimmed(s, b)
               \o (IF rest = {} THEN <<>> ELSE <<"\n">> \o BulletText(s, rest))

ExampleBullets ==
    <<Bullet, " ", "A", "l", "p", "h", "a", " ", "b", "e", "t", "a", " ",
      "g", "a", "m", "m", "a", "\n", Bullet, " ", "A", "n", "o", "t", "h",
      "e", "r", " ", "f", "u", "l", "l", " ", "s", "e", "n", "t", "e", "n",
      "c", "e", " ", "h", "e", "r", "e">>

C10_BulletPoints ==
    (mode = "format" /\ pc = "returned" /\ style = "bullet_points") =>
        /\ formatted = BulletText(text, KeptBlocks(text))
        /\ text = ExampleSummary => formatted = ExampleBullets
        /\ KeptBlocks(text) = {} => formatted = <<>>

C10_Witness ==
    /\ mode = "format" /\ pc = "returned" /\ style = "bullet_points"
    /\ \E b \in Blocks(text) : Len(Trimmed(text, b)) = 10
    /\ \E b \in Blocks(text) : Len(Trimmed(text, b)) = 11
    /\ \E i \in 1..(Len(text) - 1) : text[i] \in Terminators /\ text[i+1] \in Terminators

----------------------------------------------------------------------------
(* C11: for every successful summarize call, with either provider and     *)
(* every style, the returned word_count is the number of whitespace-       *)
(* delimited words of the returned summary text itself; with the Hugging   *)
(* Face provider that is the formatted text, so the two header words of    *)
(* the executive and technical styles and every bullet marker are counted  *)
(* on top of the words of the unformatted summary.                         *)

\* the summary before formatting: the re-compression's output when there was
\* one, otherwise the partial summaries joined by spaces
Unformatted ==
    IF Len(calls) > Len(chunks) THEN calls[Len(calls)].output
    ELSE SpacedOutputs(Len(calls))

BulletCount(s) == Cardinality({i \in 1..Len(s) : s[i] = Bullet})

C11_WordCountOfReturnedSummary ==
    (mode = "summarize" /\ pc = "returned") =>
        /\ result[1].word_count = Len(split(result[1].summary))
        /\ (provider = "huggingface" /\ style \in {"executive", "technical"}) =>
               result[1].word_count = Len(split(Unformatted)) + 2
        /\ (provider = "huggingface" /\ style = "bullet_points") =>
               result[1].word_count >= BulletCount(result[1].summary)

C11_Witness ==
    /\ mode = "summarize" /\ pc = "returned"
    /\ provider = "huggingface" /\ style = "executive"
    /\ Len(split(Unformatted)) = 10
    /\ result[1].word_count = 12
    /\ result[1].word_count = Len(split(result[1].summary))

----------------------------------------------------------------------------
(* C12, as claimed: whenever the transcription backend supplies no         *)
(* segments, the result reports confidence exactly 0.8 and duration        *)
(* exactly 0.0, whichever transcription backend is configured.             *)

LastWhisperCall == w_calls[Len(w_calls)]

C12_NoSegmentsDefaults ==
    (transcription # <<>> /\ LastWhisperCall.reply.segments = <<>>) =>
        /\ RatEq(transcription[1].confidence, Rat(4, 5))
        /\ RatEq(transcription[1].duration, Rat(0, 1))

(* C12, amended: with the local backend a result without segments reports  *)
(* confidence exactly 0.8 and duration exactly 0.0; with the OpenAI         *)
(* backend the confidence is 0.95 whatever the segments are and the         *)
(* duration is the response's own duration, 0.0 when it has none.           *)
C12_NoSegmentsDefaultsLocal ==
    transcription # <<>> =>
        /\ (LastWhisperCall.backend = "local"
              /\ LastWhisperCall.reply.segments = <<>>) =>
               /\ RatEq(transcription[1].confidence, Rat(4, 5))
               /\ RatEq(transcription[1].duration, Rat(0, 1))
        /\ LastWhisperCall.backend = "openai" =>
               /\ RatEq(transcription[1].confidence, Rat(19, 20))
               /\ RatEq(transcription[1].duration,
                        IF LastWhisperCall.reply.duration = <<>> THEN Rat(0, 1)
                        ELSE LastWhisperCall.reply.duration[1])

C12_Witness ==
    /\ transcription # <<>>
    /\ LastWhisperCall.backend = "local"
    /\ LastWhisperCall.reply.segments = <<>>
    /\ transcription[1].confidence = Rat(4, 5)
    /\ transcription[1].duration = Rat(0, 1)

----------------------------------------------------------------------------
(* C13: with the local backend and a non-empty segment sequence the        *)
(* confidence is clamp((m + 1) / 2, 0.0, 1.0), m the arithmetic mean of    *)
(* the segments' avg_logprob: it lies in [0.0, 1.0], is 0.0 for m <= -1    *)
(* and 1.0 for m >= 1, no log-probability is rejected, and the             *)
(* log-probabilities -1.0, 0.0 give 0.25.                                  *)

LogProbsOf(segs) == [i \in 1..Len(segs) |-> segs[i].avg_logprob]
MeanLogProb(segs) == RatDiv(rat_sum(LogProbsOf(segs)), Len(segs))

C13_ConfidenceIsClampedMean ==
    (transcription # <<>> /\ LastWhisperCall.backend = "local"
       /\ LastWhisperCall.reply.segments # <<>>) =>
        LET m == MeanLogProb(LastWhisperCall.reply.segments)
            mapped == RatDiv(RatAdd(m, Rat(1, 1)), 2)
            confidence == transcription[1].confidence
        IN  /\ ~RatLt(confidence, Rat(0, 1)) /\ ~RatLt(Rat(1, 1), confidence)
            /\ RatEq(confidence,
                     IF RatLt(mapped, Rat(0, 1)) THEN Rat(0, 1)
                     ELSE IF RatLt(Rat(1, 1), mapped) THEN Rat(1, 1)
                     ELSE mapped)
            /\ ~RatLt(Rat(0 - 1, 1), m) => RatEq(confidence, Rat(0, 1))
            /\ ~RatLt(m, Rat(1, 1)) => RatEq(confidence, Rat(1, 1))
            /\ LogProbsOf(LastWhisperCall.reply.segments)
                  = <<Rat(0 - 1, 1), Rat(0, 1)>> => RatEq(confidence, Rat(1, 4))

C13_Witness ==
    /\ transcription # <<>> /\ LastWhisperCall.backend = "local"
    /\ LogProbsOf(LastWhisperCall.reply.segments) = <<Rat(0 - 1, 1), Rat(0, 1)>>
    /\ RatEq(transcription[1].confidence, Rat(1, 4))

----------------------------------------------------------------------------
(* C14: with the local backend and a non-empty segment sequence the        *)
(* duration is the end of the last segment in input order, also when an    *)
(* earlier segment ends later: nothing is sorted, no maximum is taken.     *)

C14_DurationIsLastEnd ==
    (transcription # <<>> /\ LastWhisperCall.backend = "local"
       /\ LastWhisperCall.reply.segments # <<>>) =>
        LET segs == LastWhisperCall.reply.segments
        IN  transcription[1].duration = segs[Len(segs)].end

C14_Witness ==
    /\ transcription # <<>> /\ LastWhisperCall.backend = "local"
    /\ Len(LastWhisperCall.reply.segments) = 2
    /\ LastWhisperCall.reply.segments[1].end = Rat(25, 2)
    /\ LastWhisperCall.reply.segments[2].end = Rat(5, 1)
    /\ transcription[1].duration = Rat(5, 1)

----------------------------------------------------------------------------
(* C15, as claimed: validate_audio_file returns False exactly when the     *)
(* filename is empty, the extension of the lower-cased filename is not one *)
(* of the six supported ones, a declared content type is not a key of the  *)
(* supported mapping, the byte length is 0 or it exceeds 52,428,800; in    *)
(* every other case it returns True.                                       *)

HasSupportedExtension(name) ==
    \E e \in SUPPORTED_EXTENSIONS :
        LET n == lower(name)
        IN  /\ Len(n) > Len(e)
            /\ SubSeq(n, Len(n) - Len(e) + 1, Len(n)) = e
            /\ \E k \in 1..(Len(n) - Len(e)) : n[k] # "."

ListedRejection(file) ==
    \/ file.filename = <<>>
    \/ ~HasSupportedExtension(file.filename)
    \/ file.content_type # "" /\ file.content_type \notin SUPPORTED_FORMATS
    \/ file.size = 0
    \/ file.size > 52428800

C15_FalseExactlyWhenListed ==
    (mode = "validate" /\ pc = "returned") =>
        (validated = "False" <=> ListedRejection(upload[1]))

(* C15, amended: validate_audio_file returns False exactly when one of the *)
(* listed conditions holds or a seek or tell on the stream raises while the *)
(* size is measured; in every other case it returns True: a 1-byte         *)
(* "clip.mp3" without content type and one of exactly 52,428,800 bytes are *)
(* accepted, a 0-byte file, "clip.txt" and 52,428,801 bytes are rejected.  *)
C15_FalseExactlyWhenListedOrStreamFails ==
    (mode = "validate" /\ pc = "returned") =>
        /\ validated \in {"True", "False"}
        /\ validated = "False" <=>
               (ListedRejection(upload[1]) \/ upload[1].fault # "none")

C15_Witness ==
    /\ mode = "validate" /\ pc = "returned"
    /\ upload[1].filename = <<"c", "l", "i", "p", ".", "m", "p", "3">>
    /\ upload[1].content_type = ""
    /\ upload[1].size = 52428800
    /\ upload[1].fault = "none"
    /\ validated = "True"

----------------------------------------------------------------------------
(* C16: validate_audio_file never raises: for every upload, also one whose *)
(* seek or tell raises, the call ends by returning a boolean, and an       *)
(* internal failure yields False.                                          *)

C16_NeverRaises ==
    (mode = "validate" /\ pc = "returned") =>
        /\ validated \in {"True", "False"}
        /\ upload[1].fault # "none" => validated = "False"

C16_Witness ==
    /\ mode = "validate" /\ pc = "returned"
    /\ ~ListedRejection(upload[1])
    /\ upload[1].fault = "tell"
    /\ validated = "False"

----------------------------------------------------------------------------
(* C17: validate_audio_file has no effect on the upload: its bytes and the *)
(* read position of its stream are after the call what they were before,   *)
(* whatever the read position was.                                         *)

C17_UploadUntouched == [][ValidateAudioFile => upload' = upload]_vars

----------------------------------------------------------------------------
(* C18: when /transcribe rejects an upload that validation refused, the    *)
(* error names the violated constraint: an unsupported extension, an       *)
(* unsupported content type, an empty file and a file over 50 MiB are each *)
(* identified, so a message stands for one constraint that every upload    *)
(* answered with that message violates.                                    *)

ViolatedConstraints(file) ==
    {c \in {"extension", "content type", "empty file", "file too large"} :
        \/ c = "extension" /\ ~HasSupportedExtension(file.filename)
        \/ c = "content type" /\ file.content_type # ""
                              /\ file.content_type \notin SUPPORTED_FORMATS
        \/ c = "empty file" /\ file.size = 0
        \/ c = "file too large" /\ file.size > max_size}

RefusedUploads ==
    {f \in Uploads : f.filename # <<>> /\ f.fault = "none" /\ ~validate_audio_file(f)}

C18_RejectionNamesConstraint ==
    (handler = "transcribe" /\ pc = "responded" /\ upload[1] \in RefusedUploads) =>
        \E c \in ViolatedConstraints(upload[1]) :
            \A f \in RefusedUploads :
                upload_rejection(f) = rejected => c \in ViolatedConstraints(f)

----------------------------------------------------------------------------
(* C19: in the chunked path, with n >= 1 chunks and a backend that does    *)
(* not fail, the backend is called once per chunk, in chunk order, and     *)
(* once more, on the partial summaries joined by spaces, exactly when      *)
(* n > 1 and the joined text has more than max_length words; with n = 1    *)
(* there is no second call; nothing is formatted before the last call.     *)

C19_BackendCallSequence ==
    (mode = "summarize" /\ provider = "huggingface") =>
        /\ pc \in {"summarize", "hf_chunk", "hf_recompress", "raised"} =>
               formatted = <<>> /\ result = <<>>
        /\ pc = "hf_recompress" => Len(calls) = Len(chunks)
        /\ pc = "returned" =>
               LET n == Len(chunks)
                   joined == SpacedOutputs(n)
               IN  /\ n >= 1
                   /\ Len(calls) \in {n, n + 1}
                   /\ \A i \in 1..n : calls[i].input = chunks[i]
                   /\ Len(calls) = n + 1 <=>
                          (n > 1 /\ Len(split(joined)) > max_length)
                   /\ Len(calls) = n + 1 => calls[n + 1].input = joined
                   /\ n = 1 => Len(calls) = 1
                   /\ formatted = apply_style_formatting(Unformatted, style)

C19_Witness ==
    /\ mode = "summarize" /\ provider = "huggingface" /\ pc = "returned"
    /\ Len(chunks) = 2 /\ Len(calls) = 3
    /\ calls[1].input = chunks[1] /\ calls[2].input = chunks[2]
    /\ calls[3].input = SpacedOutputs(2)
    /\ Len(split(SpacedOutputs(2))) > max_length

----------------------------------------------------------------------------
(* C20: a request that fails validation never reaches a backend: in        *)
(* /transcribe, when the filename is missing or validate_audio_file        *)
(* returned False, WhisperService.transcribe is not called and no temp     *)
(* file is created; in /summarize, when the text is empty after trimming   *)
(* or shorter than 10 characters, llm_service.summarize is not called.     *)

UploadFailsValidation ==
    /\ handler = "transcribe"
    /\ upload[1].filename = <<>> \/ validated = "False"

TextFailsValidation ==
    /\ handler = "summarize"
    /\ Len(strip(request[1].text)) = 0 \/ Len(request[1].text) < 10

C20_InvalidNeverReachesBackend ==
    /\ UploadFailsValidation =>
          /\ pc = "responded" /\ rejected # ""
          /\ w_calls = <<>> /\ transcription = <<>> /\ w_error = <<>>
          /\ created = {} /\ disk = {} /\ temp_file = <<>>
    /\ TextFailsValidation =>
          /\ pc = "responded" /\ rejected # ""
          /\ calls = <<>> /\ svc_outcomes = <<>>
          /\ chunks = <<>> /\ result = <<>> /\ error = <<>>

C20_Witness ==
    /\ UploadFailsValidation
    /\ upload[1].filename # <<>> /\ validated = "False"
    /\ pc = "responded" /\ w_calls = <<>> /\ created = {}

----------------------------------------------------------------------------
(* C21: calls in flight at once on the shared service objects are          *)
(* independent. Whatever the interleaving, the outcome of every summarize  *)
(* and transcribe call is what the call computes alone from its own        *)
(* arguments and the answers the backend gave to it; a step of one call    *)
(* changes no other call's locals and no attribute of the service objects; *)
(* and a transcribe call hands to the backend, and deletes, only the temp  *)
(* file it created itself, which nobody else has deleted meanwhile.        *)

\* the summary of a call before formatting, from the answers it was given
UnformattedOf(c) ==
    IF Len(c.calls) > Len(c.chunks) THEN c.calls[Len(c.calls)].output
    ELSE join(<<" ">>, [i \in 1..Len(c.calls) |-> c.calls[i].output])

SummarizeAlone(c) ==
    /\ c.pc = "returned" /\ provider = "huggingface" =>
          /\ c.chunks = split_text_into_chunks(c.text, max_chunk_length)
          /\ \A i \in 1..Len(c.chunks) : c.calls[i].input = c.chunks[i]
          /\ c.result[1].summary = apply_style_formatting(UnformattedOf(c), c.style)
          /\ c.result[1].word_count = Len(split(c.result[1].summary))
    /\ c.pc = "returned" /\ provider = "openai" =>
          /\ Len(c.calls) = 1
          /\ c.calls[1].input.text = c.text
          /\ c.result[1].summary = strip(c.calls[1].output)
    /\ c.pc = "raised" =>
          /\ c.result = <<>>
          /\ c.calls[Len(c.calls)].outcome = "raise"
          /\ c.error[Len(c.error)] = c.calls[Len(c.calls)].cause
    /\ c.temp_file = <<>> /\ c.created = {} /\ c.deleted = {}

TranscribeAlone(c) ==
    /\ c.pc = "returned" =>
          /\ Len(c.w_calls) = 1
          /\ c.transcription =
                <<IF use_openai_whisper THEN transcribe_with_openai(c.w_calls[1].reply)
                  ELSE transcribe_with_local(c.w_calls[1].reply)>>
    /\ \A i \in 1..Len(c.w_calls) : c.w_calls[i].file_path \in c.created
    /\ c.deleted \subseteq c.created
    /\ c.temp_file # <<>> => c.temp_file[1] \in c.created
    /\ c.pc = "w_transcribe" => c.temp_file[1] \in disk

OwnStepOnly ==
    /\ provider' = provider
    /\ use_openai_whisper' = use_openai_whisper
    /\ \A p \in Procs :
          invocations'[p] # invocations[p] =>
              /\ \A q \in Procs \ {p} : invocations'[q] = invocations[q]
              /\ (disk \ disk') \subseteq invocations[p].created
              /\ (disk' \ disk) \subseteq invocations'[p].created

C21_ConcurrentCallsIndependent ==
    /\ [](mode = "concurrent" =>
            \A p \in Procs :
                /\ invocations[p].kind = "summarize" => SummarizeAlone(invocations[p])
                /\ invocations[p].kind = "transcribe" => TranscribeAlone(invocations[p])
                /\ \A q \in Procs \ {p} :
                      (invocations[p].pc = "w_transcribe"
                         /\ invocations[q].pc = "w_transcribe") =>
                          invocations[p].temp_file # invocations[q].temp_file)
    /\ [][mode = "concurrent" => OwnStepOnly]_vars

\* two transcribe calls overlapped: the second saved its upload while the
\* first one's temp file was still there, and both have returned
C21_Witness ==
    /\ mode = "concurrent"
    /\ invocations[1].kind = "transcribe" /\ invocations[1].pc = "returned"
    /\ invocations[2].kind = "transcribe" /\ invocations[2].pc = "returned"
    /\ invocations[1].created # invocations[2].created
    /\ invocations[1].deleted = invocations[1].created
    /\ invocations[2].deleted = invocations[2].created
    /\ disk = {}

----------------------------------------------------------------------------
(* C22: the length limit handed to the summarization backend is the        *)
(* caller's max_length, with either provider: every backend call of the    *)
(* chunked path is passed max_length as its maximum length, and the word   *)
(* limit written into the prompt of the OpenAI path is max_length.         *)

C22_BackendLimitIsMaxLength ==
    mode = "summarize" =>
        \A i \in 1..Len(calls) :
            /\ calls[i].fn = "summarizer" => calls[i].max_length = max_length
            /\ calls[i].fn = "ChatCompletion" =>
                   calls[i].input.word_limit = max_length

====
